---- MODULE Spec2Model ----
(***************************************************************************)
(* Rental booking core of the Vehicle Rental API (src/vrent/app/main.py):  *)
(* create_rental, update_rental, delete_rental and the rental read         *)
(* queries, run against the Rental and Vehicle tables.                     *)
(*                                                                         *)
(* Dates are day numbers: day d stands for 2024-04-d.  Money is counted in *)
(* cents, so DECIMAL(_,2) prices and round(x, 2) are exact.                *)
(***************************************************************************)
EXTENDS Integers, Sequences, FiniteSets, TLC

\* ------------------------------------------------------------------ bounds
MaxDay == 3
MaxRentals == 2
MaxPricedRentals == 1
MaxClock == 3
MaxRaceRentals == 1

Days == 1..MaxDay
LongDays == 1..(MaxDay + 2)
ScenarioDays == {1, 2, 5, 6}
VehicleIds == {1, 2}
UserIds == {1, 2}
RentalIds == 1..MaxRentals
Prices == {4500, 6000}

NULL == 0

\* Vehicle, Rental: the tables; req, resp: the request last answered under
\* sequential execution and its response; now: the database clock;
\* calls: the requests in flight under concurrent execution; User: the user
\* table; auth: the login last answered and its response
VARIABLES Vehicle, Rental, req, resp, now, calls, User, auth

vars == <<Vehicle, Rental, req, resp, now, calls, User, auth>>

\* the value SQL CURRENT_TIMESTAMP yields
CURRENT_TIMESTAMP == now

\* ------------------------------------------------------- dates and strings
\* (end_date - start_date).days and SQL DATEDIFF(end_date, start_date)
DATEDIFF(e, s) == e - s

\* str(date): the ISO text YYYY-MM-DD of 2024-04-d, as its digits
DateStr(d) == <<2, 0, 2, 4, 0, 4, d \div 10, d % 10>>

\* SQL string comparison a < b of two texts of equal length
RECURSIVE StrLessFrom(_, _, _)
StrLessFrom(a, b, i) ==
    IF i > Len(a) THEN FALSE
    ELSE IF a[i] < b[i] THEN TRUE
    ELSE IF a[i] > b[i] THEN FALSE
    ELSE StrLessFrom(a, b, i + 1)

StrLess(a, b) == StrLessFrom(a, b, 1)

\* the DATE value MariaDB reads from an ISO text compared with a DATE column
StrToDate(t) == t[7] * 10 + t[8]

\* --------------------------------------------------- requests and responses
NoReq ==
    [op |-> "none", rental_id |-> 0, user_id |-> 0, vehicle_id |-> 0,
     start_date |-> 0, end_date |-> 0]

\* the request an endpoint was called with: the path parameter rental_id
\* (0 for POST /rentals) and the RentalCreateRequest payload
Request(o, rid, u, v, s, e) ==
    [op |-> o, rental_id |-> rid, user_id |-> u, vehicle_id |-> v,
     start_date |-> s, end_date |-> e]

NoResp ==
    [status |-> 0, rental_id |-> 0, user_id |-> 0, vehicle_id |-> 0,
     start_date |-> 0, end_date |-> 0, total_days |-> 0, total_price |-> 0]

\* raise HTTPException(status_code = st), and the 500 of an uncaught exception
Failure(st) == [NoResp EXCEPT !.status = st]

\* the RentalResponse body, sent with status st
RentalResponse(st, rid, u, v, s, e, days, price) ==
    [status |-> st, rental_id |-> rid, user_id |-> u, vehicle_id |-> v,
     start_date |-> s, end_date |-> e, total_days |-> days, total_price |-> price]

\* ------------------------------------------------------------ create path
\* a range validation that also refuses a one-day rental
CreateInvalidRangeStrict(s, e) == e <= s

\* 1) if end_date < start_date: 422
CreateInvalidRange(s, e) == e < s

\* a range test that lets two rentals meet on an endpoint day
CreateRangesOverlapOpenEnds(s, e, rs, re) == ~(e <= rs \/ s >= re)

\* 2) the range test of the create query, new [s, e] against a row [rs, re]:
\*      NOT (:end_date < start_date OR :start_date > end_date)
CreateRangesOverlap(s, e, rs, re) == ~(e < rs \/ s > re)

\* an overlap query that skips cancelled rentals
CreateOverlapActiveOnly(v, s, e) ==
    \E i \in 1..Len(Rental) :
        /\ Rental[i].vehicle_id = v
        /\ Rental[i].deleted_at = NULL
        /\ ~(e < Rental[i].start_date \/ s > Rental[i].end_date)

\*    SELECT 1 FROM Rental WHERE vehicle_id = :vehicle_id AND <range test>
\*    (deleted_at is not filtered)
CreateOverlap(v, s, e) ==
    \E i \in 1..Len(Rental) :
        /\ Rental[i].vehicle_id = v
        /\ CreateRangesOverlap(s, e, Rental[i].start_date, Rental[i].end_date)

\* 3) SELECT price_per_day FROM Vehicle WHERE vehicle_id = :vehicle_id
\*      AND deleted_at IS NULL
VehicleFound(v) == v \in DOMAIN Vehicle /\ Vehicle[v].deleted_at = NULL

\* a day count that leaves out the end day
CreateTotalDaysExclusive(s, e) == e - s

\* 4) total_days = (end_date - start_date).days + 1
CreateTotalDays(s, e) == DATEDIFF(e, s) + 1

\*    total_cost = round(price_per_day * total_days, 2)
CreateTotalCost(p, s, e) == p * CreateTotalDays(s, e)

\* the storage constraint uq_vehicle_date_overlap: no two rows of Rental,
\* cancelled or not, with the same vehicle and the same dates
UniqueViolation(v, s, e, self) ==
    \E i \in 1..Len(Rental) :
        /\ i # self
        /\ Rental[i].vehicle_id = v
        /\ Rental[i].start_date = s
        /\ Rental[i].end_date = e

\* the row INSERT INTO Rental writes
NewRental(u, v, s, e) ==
    [user_id |-> u, vehicle_id |-> v, start_date |-> s, end_date |-> e,
     price_at_rental |-> Vehicle[v].price_per_day,
     total_cost |-> CreateTotalCost(Vehicle[v].price_per_day, s, e),
     deleted_at |-> NULL]

\* a create_rental that looks the vehicle up before the overlap query
create_rentalVehicleFirst(u, v, s, e) ==
    /\ req' = Request("create", 0, u, v, s, e)
    /\ UNCHANGED <<Vehicle, now, calls, User, auth>>
    /\ IF e < s
       THEN /\ resp' = Failure(422)
            /\ UNCHANGED Rental
       ELSE IF ~(v \in DOMAIN Vehicle /\ Vehicle[v].deleted_at = NULL)
       THEN /\ resp' = Failure(404)
            /\ UNCHANGED Rental
       ELSE IF \E i \in 1..Len(Rental) :
                  /\ Rental[i].vehicle_id = v
                  /\ ~(e < Rental[i].start_date \/ s > Rental[i].end_date)
       THEN /\ resp' = Failure(400)
            /\ UNCHANGED Rental
       ELSE /\ Rental' = Append(Rental, NewRental(u, v, s, e))
            /\ resp' = RentalResponse(201, Len(Rental) + 1, u, v, s, e,
                           (e - s) + 1, Vehicle[v].price_per_day * ((e - s) + 1))

create_rental(u, v, s, e) ==
    /\ req' = Request("create", 0, u, v, s, e)
    /\ UNCHANGED <<Vehicle, now, calls, User, auth>>
    /\ IF CreateInvalidRange(s, e)
       THEN /\ resp' = Failure(422)
            /\ UNCHANGED Rental
       ELSE IF CreateOverlap(v, s, e)
       THEN /\ resp' = Failure(400)
            /\ UNCHANGED Rental
       ELSE IF ~VehicleFound(v)
       THEN /\ resp' = Failure(404)
            /\ UNCHANGED Rental
       ELSE IF UniqueViolation(v, s, e, 0)
       THEN /\ resp' = Failure(400)
            /\ UNCHANGED Rental
       ELSE /\ Rental' = Append(Rental, NewRental(u, v, s, e))
            /\ resp' = RentalResponse(201, Len(Rental) + 1, u, v, s, e,
                           CreateTotalDays(s, e),
                           CreateTotalCost(Vehicle[v].price_per_day, s, e))

\* ------------------------------------------------------------ delete path
\* an existence check that does not look at deleted_at
ExistingRentalIgnoringCancel(rid) == rid \in 1..Len(Rental)

\* SELECT rental_id FROM Rental WHERE rental_id = :rid AND deleted_at IS NULL
ExistingRental(rid) ==
    rid \in 1..Len(Rental) /\ Rental[rid].deleted_at = NULL

\* a delete_rental that stamps deleted_at on every rental it finds
delete_rentalRestamping(rid) ==
    /\ req' = Request("delete", rid, 0, 0, 0, 0)
    /\ UNCHANGED <<Vehicle, now, calls, User, auth>>
    /\ IF rid \notin 1..Len(Rental)
       THEN /\ resp' = Failure(404)
            /\ UNCHANGED Rental
       ELSE /\ Rental' = [Rental EXCEPT ![rid].deleted_at = now]
            /\ resp' = [NoResp EXCEPT
                           !.status = IF Rental[rid].deleted_at = NULL
                                      THEN 204 ELSE 404]

delete_rental(rid) ==
    /\ req' = Request("delete", rid, 0, 0, 0, 0)
    /\ UNCHANGED <<Vehicle, now, calls, User, auth>>
    /\ IF ~ExistingRental(rid)
       THEN /\ resp' = Failure(404)
            /\ UNCHANGED Rental
       ELSE /\ Rental' = [Rental EXCEPT ![rid].deleted_at = CURRENT_TIMESTAMP]
            /\ resp' = [NoResp EXCEPT !.status = 204]

\* ------------------------------------------------------------ update path
\* the range test of the update query, new [s, e] against a row [rs, re]:
\*   NOT (:end_date <= start_date OR :start_date >= end_date)
\* the parameters are the texts str(payload.start_date), str(payload.end_date)
UpdateRangesOverlap(s, e, rs, re) ==
    ~(StrToDate(DateStr(e)) <= rs \/ StrToDate(DateStr(s)) >= re)

\* an update overlap query that also counts cancelled rentals
UpdateOverlapCountingCancelled(v, rid, s, e) ==
    \E i \in 1..Len(Rental) :
        /\ Rental[i].vehicle_id = v
        /\ i # rid
        /\ ~(e <= Rental[i].start_date \/ s >= Rental[i].end_date)

\* SELECT 1 FROM Rental WHERE vehicle_id = :vehicle_id AND rental_id <> :rid
\*   AND deleted_at IS NULL AND <range test>
UpdateOverlap(v, rid, s, e) ==
    \E i \in 1..Len(Rental) :
        /\ Rental[i].vehicle_id = v
        /\ i # rid
        /\ Rental[i].deleted_at = NULL
        /\ UpdateRangesOverlap(s, e, Rental[i].start_date, Rental[i].end_date)

\* SELECT CASE WHEN :start_date < :end_date THEN 1 ELSE 0 END AS ok
UpdateDateOrderOk(s, e) == StrLess(DateStr(s), DateStr(e))

\* an UPDATE that also takes a new price snapshot
UpdatedRentalResnapshot(rid, s, e) ==
    [Rental EXCEPT ![rid].start_date = s,
                   ![rid].end_date = e,
                   ![rid].price_at_rental =
                       Vehicle[Rental[rid].vehicle_id].price_per_day]

\* UPDATE Rental SET start_date = .., end_date = .., updated_at = ..
\*   WHERE rental_id = :rid
UpdatedRental(rid, s, e) ==
    [Rental EXCEPT ![rid].start_date = StrToDate(DateStr(s)),
                   ![rid].end_date = StrToDate(DateStr(e))]

\* total_days of the returned view: DATEDIFF(r.end_date, r.start_date)
ViewTotalDays(r) == DATEDIFF(r.end_date, r.start_date)

\* total_price of the returned view: DATEDIFF(..) * v.price_per_day
ViewTotalPrice(r) == ViewTotalDays(r) * Vehicle[r.vehicle_id].price_per_day

\* a returned view priced from the rental's snapshot
UpdatedViewFromSnapshot(rows, rid) ==
    [status |-> 200, rental_id |-> rid, user_id |-> rows[rid].user_id,
     vehicle_id |-> rows[rid].vehicle_id,
     start_date |-> rows[rid].start_date, end_date |-> rows[rid].end_date,
     total_days |-> rows[rid].end_date - rows[rid].start_date,
     total_price |-> (rows[rid].end_date - rows[rid].start_date)
                         * rows[rid].price_at_rental]

\* SELECT r.rental_id, r.user_id, .. FROM Rental r JOIN Vehicle v ..
\*   WHERE r.rental_id = :rid, read after the UPDATE
UpdatedView(rows, rid) ==
    RentalResponse(200, rid, rows[rid].user_id, rows[rid].vehicle_id,
                   rows[rid].start_date, rows[rid].end_date,
                   DATEDIFF(rows[rid].end_date, rows[rid].start_date),
                   DATEDIFF(rows[rid].end_date, rows[rid].start_date)
                       * Vehicle[rows[rid].vehicle_id].price_per_day)

\* an update_rental whose first query does not filter deleted_at
update_rentalAnyRow(rid, u, v, s, e) ==
    /\ req' = Request("update", rid, u, v, s, e)
    /\ UNCHANGED <<Vehicle, now, calls, User, auth>>
    /\ IF rid \notin 1..Len(Rental)
       THEN /\ resp' = Failure(404)
            /\ UNCHANGED Rental
       ELSE IF UpdateOverlap(Rental[rid].vehicle_id, rid, s, e)
       THEN /\ resp' = Failure(400)
            /\ UNCHANGED Rental
       ELSE IF ~UpdateDateOrderOk(s, e)
       THEN /\ resp' = Failure(422)
            /\ UNCHANGED Rental
       ELSE IF UniqueViolation(Rental[rid].vehicle_id, s, e, rid)
       THEN /\ resp' = Failure(500)
            /\ UNCHANGED Rental
       ELSE /\ Rental' = UpdatedRental(rid, s, e)
            /\ resp' = UpdatedView(UpdatedRental(rid, s, e), rid)

\* an update_rental that writes the dates before it validates their order
update_rentalWriteFirst(rid, u, v, s, e) ==
    /\ req' = Request("update", rid, u, v, s, e)
    /\ UNCHANGED <<Vehicle, now, calls, User, auth>>
    /\ IF ~ExistingRental(rid)
       THEN /\ resp' = Failure(404)
            /\ UNCHANGED Rental
       ELSE IF UpdateOverlap(Rental[rid].vehicle_id, rid, s, e)
       THEN /\ resp' = Failure(400)
            /\ UNCHANGED Rental
       ELSE IF UniqueViolation(Rental[rid].vehicle_id, s, e, rid)
       THEN /\ resp' = Failure(500)
            /\ UNCHANGED Rental
       ELSE /\ Rental' = UpdatedRental(rid, s, e)
            /\ resp' = IF ~UpdateDateOrderOk(s, e)
                       THEN Failure(422)
                       ELSE UpdatedView(UpdatedRental(rid, s, e), rid)

update_rental(rid, u, v, s, e) ==
    /\ req' = Request("update", rid, u, v, s, e)
    /\ UNCHANGED <<Vehicle, now, calls, User, auth>>
    /\ IF ~ExistingRental(rid)
       THEN /\ resp' = Failure(404)
            /\ UNCHANGED Rental
       ELSE IF UpdateOverlap(Rental[rid].vehicle_id, rid, s, e)
       THEN /\ resp' = Failure(400)
            /\ UNCHANGED Rental
       ELSE IF ~UpdateDateOrderOk(s, e)
       THEN /\ resp' = Failure(422)
            /\ UNCHANGED Rental
       ELSE IF UniqueViolation(Rental[rid].vehicle_id, s, e, rid)
       THEN /\ resp' = Failure(500)
            /\ UNCHANGED Rental
       ELSE /\ Rental' = UpdatedRental(rid, s, e)
            /\ resp' = UpdatedView(UpdatedRental(rid, s, e), rid)

\* ------------------------------------------------------------- read paths
\* a listing that does not filter deleted_at
list_rentalsWithCancelled ==
    { [rental_id |-> i, user_id |-> Rental[i].user_id,
       vehicle_id |-> Rental[i].vehicle_id,
       start_date |-> Rental[i].start_date, end_date |-> Rental[i].end_date,
       total_days |-> Rental[i].end_date - Rental[i].start_date,
       total_price |-> (Rental[i].end_date - Rental[i].start_date)
                           * Vehicle[Rental[i].vehicle_id].price_per_day] :
      i \in 1..Len(Rental) }

\* GET /rentals: rows of Rental r JOIN Vehicle v WHERE r.deleted_at IS NULL
list_rentals ==
    { [rental_id |-> i, user_id |-> Rental[i].user_id,
       vehicle_id |-> Rental[i].vehicle_id,
       start_date |-> Rental[i].start_date, end_date |-> Rental[i].end_date,
       total_days |-> ViewTotalDays(Rental[i]),
       total_price |-> ViewTotalPrice(Rental[i])] :
      i \in { j \in 1..Len(Rental) : Rental[j].deleted_at = NULL } }

\* GET /users/{user_id}/rentals
get_user_rentals(uid) ==
    { [rental_id |-> i, user_id |-> Rental[i].user_id,
       vehicle_id |-> Rental[i].vehicle_id,
       start_date |-> Rental[i].start_date, end_date |-> Rental[i].end_date,
       total_days |-> ViewTotalDays(Rental[i]),
       total_price |-> Rental[i].total_cost] :
      i \in { j \in 1..Len(Rental) :
                Rental[j].deleted_at = NULL /\ Rental[j].user_id = uid } }

\* GET /rentals/{rental_id} reads the tables named rentals and vehicles
\* (columns id, daily_rate); no statement of the program writes them
rentals == <<>>

vehicles == <<>>

\* the rows of rentals r JOIN vehicles v ON v.id = r.vehicle_id
\*   WHERE r.deleted_at IS NULL AND r.id = :rid, as pairs of row numbers
RentalByIdRows(rid) ==
    { ik \in (1..Len(rentals)) \X (1..Len(vehicles)) :
        /\ vehicles[ik[2]].id = rentals[ik[1]].vehicle_id
        /\ rentals[ik[1]].deleted_at = NULL
        /\ rentals[ik[1]].id = rid }

\* the rentals GET /rentals/{rental_id} answers with (none: 404)
get_rental_by_id(rid) ==
    { [rental_id |-> rentals[ik[1]].id, user_id |-> rentals[ik[1]].user_id,
       vehicle_id |-> rentals[ik[1]].vehicle_id,
       start_date |-> rentals[ik[1]].start_date,
       end_date |-> rentals[ik[1]].end_date,
       total_days |-> DATEDIFF(rentals[ik[1]].end_date,
                               rentals[ik[1]].start_date),
       total_price |-> DATEDIFF(rentals[ik[1]].end_date,
                                rentals[ik[1]].start_date)
                           * vehicles[ik[2]].daily_rate] :
      ik \in RentalByIdRows(rid) }

\* ------------------------------------------------- the catalog, from outside
\* the catalog price of a vehicle changes
ChangeVehiclePrice(v, p) ==
    /\ Vehicle[v].price_per_day # p
    /\ Vehicle' = [Vehicle EXCEPT ![v].price_per_day = p]
    /\ req' = NoReq
    /\ resp' = NoResp
    /\ UNCHANGED <<Rental, now, calls, User, auth>>

\* a vehicle is soft-deleted
SoftDeleteVehicle(v) ==
    /\ Vehicle[v].deleted_at = NULL
    /\ Vehicle' = [Vehicle EXCEPT ![v].deleted_at = CURRENT_TIMESTAMP]
    /\ req' = NoReq
    /\ resp' = NoResp
    /\ UNCHANGED <<Rental, now, calls, User, auth>>

\* -------------------------------------- create_rental, one await at a time
\* the tasks that serve requests concurrently
Procs == {1, 2}

\* the text of the exception the INSERT raises, as the fragments it contains
NoError == {}

UqViolationError == {"1062", "Duplicate entry", "uq_vehicle_date_overlap"}

\* failures of the INSERT other than the uq_vehicle_date_overlap violation
OtherInsertErrors ==
    { {"1062", "Duplicate entry", "PRIMARY"},
      {"1452", "foreign key constraint fails"},
      {"2013", "Lost connection"} }

DetailInvalidRange == "Invalid date range: start_date must be before end_date"
DetailUnavailable == "Vehicle not available in the selected dates"
DetailVehicleNotFound == "Vehicle not found"
DetailCreateFailed == "Failed to create rental"

\* a task serving no request
IdleCall ==
    [pc |-> "idle", op |-> "none", user_id |-> 0, vehicle_id |-> 0, start_date |-> 0,
     end_date |-> 0, price_per_day |-> 0, err |-> NoError,
     status |-> 0, detail |-> "", rental_id |-> 0]

\* the locals of create_rental(payload) when it starts
StartedCall(u, v, s, e) ==
    [IdleCall EXCEPT !.op = "create", !.user_id = u, !.vehicle_id = v,
                     !.start_date = s, !.end_date = e]

\* raise HTTPException(status_code = st, detail = d) ends the call
Raised(c, st, d) == [c EXCEPT !.pc = "done", !.status = st, !.detail = d]

\* an except clause that takes every 1062 for the overlap constraint
InsertErrorStatusAny1062(msg) ==
    IF "1062" \in msg THEN 400 ELSE 500

\* except Exception as e: 400 if "1062" in msg and
\* "uq_vehicle_date_overlap" in msg, else 500
InsertErrorStatus(msg) ==
    IF "1062" \in msg /\ "uq_vehicle_date_overlap" \in msg THEN 400 ELSE 500

InsertErrorDetail(msg) ==
    IF "1062" \in msg /\ "uq_vehicle_date_overlap" \in msg
    THEN DetailUnavailable ELSE DetailCreateFailed

\* an overlap check that also sees the requests between check and insert
CreateOverlapSeeingCalls(v, s, e) ==
    \/ \E i \in 1..Len(Rental) :
           /\ Rental[i].vehicle_id = v
           /\ ~(e < Rental[i].start_date \/ s > Rental[i].end_date)
    \/ \E q \in Procs :
           /\ calls[q].pc \in {"lookup", "insert"}
           /\ calls[q].vehicle_id = v
           /\ ~(e < calls[q].start_date \/ s > calls[q].end_date)

\* the overlap query as a task runs it: the query of create_rental
CreateCallOverlap(v, s, e) == CreateOverlap(v, s, e)

\* from the start of create_rental to the answer of the overlap query:
\* steps 1) and 2)
CreateCallCheck(p, u, v, s, e) ==
    /\ calls[p].pc \in {"idle", "done"}
    /\ calls' = [calls EXCEPT ![p] =
          IF CreateInvalidRange(s, e)
          THEN Raised(StartedCall(u, v, s, e), 422, DetailInvalidRange)
          ELSE IF CreateCallOverlap(v, s, e)
          THEN Raised(StartedCall(u, v, s, e), 400, DetailUnavailable)
          ELSE [StartedCall(u, v, s, e) EXCEPT !.pc = "lookup"]]
    /\ UNCHANGED <<Vehicle, Rental, req, resp, now, User, auth>>

\* the vehicle query and its answer: step 3)
CreateCallLookup(p) ==
    /\ calls[p].pc = "lookup"
    /\ calls' = [calls EXCEPT ![p] =
          IF ~VehicleFound(calls[p].vehicle_id)
          THEN Raised(calls[p], 404, DetailVehicleNotFound)
          ELSE [calls[p] EXCEPT
                   !.pc = "insert",
                   !.price_per_day = Vehicle[calls[p].vehicle_id].price_per_day]]
    /\ UNCHANGED <<Vehicle, Rental, req, resp, now, User, auth>>

\* the row the task's INSERT writes, from its locals
CallRental(c) ==
    [user_id |-> c.user_id, vehicle_id |-> c.vehicle_id,
     start_date |-> c.start_date, end_date |-> c.end_date,
     price_at_rental |-> c.price_per_day,
     total_cost |-> CreateTotalCost(c.price_per_day, c.start_date, c.end_date),
     deleted_at |-> NULL]

\* the exception the INSERT raises: the constraint's when it is violated,
\* else the failure fault (NoError: none)
InsertError(c, fault) ==
    IF UniqueViolation(c.vehicle_id, c.start_date, c.end_date, 0)
    THEN UqViolationError
    ELSE fault

\* the INSERT, its except clause and the response: steps 4) to 6)
CreateCallInsert(p, fault) ==
    /\ calls[p].pc = "insert"
    /\ IF InsertError(calls[p], fault) = NoError
       THEN /\ Rental' = Append(Rental, CallRental(calls[p]))
            /\ calls' = [calls EXCEPT ![p] =
                  [calls[p] EXCEPT !.pc = "done", !.status = 201,
                                   !.rental_id = Len(Rental) + 1]]
       ELSE /\ UNCHANGED Rental
            /\ calls' = [calls EXCEPT ![p] =
                  [Raised(calls[p],
                          InsertErrorStatus(InsertError(calls[p], fault)),
                          InsertErrorDetail(InsertError(calls[p], fault)))
                   EXCEPT !.err = InsertError(calls[p], fault)]]
    /\ UNCHANGED <<Vehicle, req, resp, now, User, auth>>

\* ------------------------------------- update and delete, statement by statement
DetailRentalNotFound == "Rental not found"

\* the locals of update_rental(rental_id, payload) when it starts
StartedUpdate(rid, s, e) ==
    [IdleCall EXCEPT !.op = "update", !.rental_id = rid,
                     !.start_date = s, !.end_date = e]

\* the existence query of update_rental and its answer
UpdateCallExists(p, rid, s, e) ==
    /\ calls[p].pc \in {"idle", "done"}
    /\ calls' = [calls EXCEPT ![p] =
          IF ~ExistingRental(rid)
          THEN Raised(StartedUpdate(rid, s, e), 404, DetailRentalNotFound)
          ELSE [StartedUpdate(rid, s, e) EXCEPT
                   !.pc = "overlap",
                   !.vehicle_id = Rental[rid].vehicle_id]]
    /\ UNCHANGED <<Vehicle, Rental, req, resp, now, User, auth>>

\* the overlap query of update_rental, then its date order query, which
\* reads no table
UpdateCallCheck(p) ==
    /\ calls[p].pc = "overlap"
    /\ calls' = [calls EXCEPT ![p] =
          IF UpdateOverlap(calls[p].vehicle_id, calls[p].rental_id,
                           calls[p].start_date, calls[p].end_date)
          THEN Raised(calls[p], 400, DetailUnavailable)
          ELSE IF ~UpdateDateOrderOk(calls[p].start_date, calls[p].end_date)
          THEN Raised(calls[p], 422, DetailInvalidRange)
          ELSE [calls[p] EXCEPT !.pc = "write"]]
    /\ UNCHANGED <<Vehicle, Rental, req, resp, now, User, auth>>

\* UPDATE Rental SET start_date, end_date, updated_at WHERE rental_id = :rid;
\* an exception of the statement is caught nowhere (500)
UpdateCallWrite(p) ==
    /\ calls[p].pc = "write"
    /\ IF UniqueViolation(Rental[calls[p].rental_id].vehicle_id,
                          calls[p].start_date, calls[p].end_date,
                          calls[p].rental_id)
       THEN /\ UNCHANGED Rental
            /\ calls' = [calls EXCEPT ![p] =
                  [Raised(calls[p], 500, "Internal Server Error")
                   EXCEPT !.err = UqViolationError]]
       ELSE /\ Rental' = UpdatedRental(calls[p].rental_id,
                                       calls[p].start_date, calls[p].end_date)
            /\ calls' = [calls EXCEPT ![p].pc = "view"]
    /\ UNCHANGED <<Vehicle, req, resp, now, User, auth>>

\* the final SELECT of update_rental and the response with the row's dates
UpdateCallView(p) ==
    /\ calls[p].pc = "view"
    /\ calls' = [calls EXCEPT ![p] =
          [calls[p] EXCEPT
              !.pc = "done", !.status = 200,
              !.user_id = Rental[calls[p].rental_id].user_id,
              !.start_date = Rental[calls[p].rental_id].start_date,
              !.end_date = Rental[calls[p].rental_id].end_date]]
    /\ UNCHANGED <<Vehicle, Rental, req, resp, now, User, auth>>

\* the locals of delete_rental(rental_id) when it starts
StartedDelete(rid) == [IdleCall EXCEPT !.op = "delete", !.rental_id = rid]

\* the existence query of delete_rental and its answer
DeleteCallExists(p, rid) ==
    /\ calls[p].pc \in {"idle", "done"}
    /\ calls' = [calls EXCEPT ![p] =
          IF ~ExistingRental(rid)
          THEN Raised(StartedDelete(rid), 404, DetailRentalNotFound)
          ELSE [StartedDelete(rid) EXCEPT !.pc = "cancel"]]
    /\ UNCHANGED <<Vehicle, Rental, req, resp, now, User, auth>>

\* UPDATE Rental SET deleted_at = CURRENT_TIMESTAMP WHERE rental_id = :rid
DeleteCallWrite(p) ==
    /\ calls[p].pc = "cancel"
    /\ Rental' = [Rental EXCEPT ![calls[p].rental_id].deleted_at = CURRENT_TIMESTAMP]
    /\ calls' = [calls EXCEPT ![p] = [calls[p] EXCEPT !.pc = "done", !.status = 204]]
    /\ UNCHANGED <<Vehicle, req, resp, now, User, auth>>

\* ------------------------------------------------------------------ users
MaxUsers == 2

Emails == {"ann@example.com", "bob@example.com"}

Passwords == {"alpha", "bravo"}

\* SHA2(:password, 256): the first eight hex digits of the digest
SHA2(p) ==
    CASE p = "alpha" -> "8ed3f6ad"
      [] p = "bravo" -> "f144a690"

\* no login answered
NoAuth == [op |-> "none", email |-> "", password |-> "", status |-> 0, user_id |-> 0]

\* INSERT INTO User (name, email, phone, password_hash)
\*   VALUES (:name, :email, :phone, SHA2(:password, 256))
NewUser(email, password) ==
    [email |-> email, password_hash |-> SHA2(password),
     deleted_at |-> NULL, last_login_at |-> NULL]

\* POST /auth/register: a duplicate email is error 1062, answered 400
register(email, password) ==
    /\ User' = IF \E i \in 1..Len(User) : User[i].email = email
               THEN User
               ELSE Append(User, NewUser(email, password))
    /\ auth' = NoAuth
    /\ UNCHANGED <<Vehicle, Rental, req, resp, now, calls>>

\* a login query that compares the stored hash with the password itself
LoginMatchesPlainPassword(email, password) ==
    { i \in 1..Len(User) :
        /\ User[i].email = email
        /\ User[i].password_hash = password
        /\ User[i].deleted_at = NULL }

\* a login query without the deleted_at filter
LoginMatchesDeleted(email, password) ==
    { i \in 1..Len(User) :
        /\ User[i].email = email
        /\ User[i].password_hash = SHA2(password) }

\* SELECT user_id, name, email FROM User WHERE email = :email
\*   AND password_hash = SHA2(:password, 256) AND deleted_at IS NULL
LoginMatches(email, password) ==
    { i \in 1..Len(User) :
        /\ User[i].email = email
        /\ User[i].password_hash = SHA2(password)
        /\ User[i].deleted_at = NULL }

\* fetch_one: the first row of the result
FirstRow(S) == CHOOSE i \in S : \A j \in S : i <= j

\* POST /auth/login
login(email, password) ==
    /\ UNCHANGED <<Vehicle, Rental, req, resp, now, calls>>
    /\ IF LoginMatches(email, password) = {}
       THEN /\ auth' = [op |-> "login", email |-> email, password |-> password,
                        status |-> 401, user_id |-> 0]
            /\ UNCHANGED User
       ELSE /\ User' = [User EXCEPT
                           ![FirstRow(LoginMatches(email, password))].last_login_at
                               = CURRENT_TIMESTAMP]
            /\ auth' = [op |-> "login", email |-> email, password |-> password,
                        status |-> 200,
                        user_id |-> FirstRow(LoginMatches(email, password))]

\* a user is soft-deleted, from outside
SoftDeleteUser(uid) ==
    /\ uid \in 1..Len(User)
    /\ User[uid].deleted_at = NULL
    /\ User' = [User EXCEPT ![uid].deleted_at = CURRENT_TIMESTAMP]
    /\ auth' = NoAuth
    /\ UNCHANGED <<Vehicle, Rental, req, resp, now, calls>>

\* --------------------------------------------------------- the clock, outside
\* time passes
Tick ==
    /\ now < MaxClock
    /\ now' = now + 1
    /\ req' = NoReq
    /\ resp' = NoResp
    /\ auth' = NoAuth
    /\ UNCHANGED <<Vehicle, Rental, calls, User>>

\* ---------------------------------------------------------- specifications
Init ==
    /\ Vehicle = [v \in VehicleIds |-> [price_per_day |-> 4500, deleted_at |-> NULL]]
    /\ Rental = <<>>
    /\ req = NoReq
    /\ resp = NoResp
    /\ now = 1
    /\ calls = [p \in Procs |-> IdleCall]
    /\ User = <<>>
    /\ auth = NoAuth

\* a request that would insert is taken only while the table has room
HasRoom(v, s, e, cap) ==
    (/\ ~CreateInvalidRange(s, e)
     /\ ~CreateOverlap(v, s, e)
     /\ VehicleFound(v)
     /\ ~UniqueViolation(v, s, e, 0)) => Len(Rental) < cap

\* Spec: two vehicles, one user, requests over Days
CreateStep ==
    \E v \in VehicleIds, s \in Days, e \in Days :
        HasRoom(v, s, e, MaxRentals) /\ create_rental(1, v, s, e)

UpdateStep ==
    \E rid \in RentalIds, v \in VehicleIds, s \in Days, e \in Days :
        update_rental(rid, 1, v, s, e)

DeleteStep == \E rid \in RentalIds : delete_rental(rid)

Next ==
    \/ CreateStep
    \/ UpdateStep
    \/ DeleteStep

Spec == Init /\ [][Next]_vars

\* SpecLong: one vehicle, one user, a longer calendar; the update requests
\* are those whose dates are not in order (start_date >= end_date)
LongCreateStep ==
    \E s \in LongDays, e \in LongDays :
        HasRoom(1, s, e, MaxRentals) /\ create_rental(1, 1, s, e)

LongUpdateStep ==
    \E rid \in RentalIds, s \in LongDays, e \in LongDays :
        s >= e /\ update_rental(rid, 1, 1, s, e)

NextLong ==
    \/ LongCreateStep
    \/ LongUpdateStep
    \/ DeleteStep

SpecLong == Init /\ [][NextLong]_vars

\* SpecPriced: the catalog changes under the rentals of vehicle 1; update
\* payloads name either user and either vehicle; dates of scenarios A and D
PricedCreateStep ==
    \E u \in UserIds, s \in ScenarioDays, e \in ScenarioDays :
        HasRoom(1, s, e, MaxPricedRentals) /\ create_rental(u, 1, s, e)

PricedUpdateStep ==
    \E rid \in 1..MaxPricedRentals, u \in UserIds, v \in VehicleIds,
       s \in ScenarioDays, e \in ScenarioDays :
        update_rental(rid, u, v, s, e)

PricedDeleteStep == \E rid \in 1..MaxPricedRentals : delete_rental(rid)

PriceStep == \E p \in Prices : ChangeVehiclePrice(1, p)

VehicleDeleteStep == SoftDeleteVehicle(1)

NextPriced ==
    \/ PricedCreateStep
    \/ PricedUpdateStep
    \/ PricedDeleteStep
    \/ PriceStep
    \/ VehicleDeleteStep

SpecPriced == Init /\ [][NextPriced]_vars

\* SpecConc: two tasks serve create requests for vehicle 1 concurrently,
\* each database statement being one step
InFlight == { q \in Procs : calls[q].pc \in {"lookup", "insert"} }

\* a request that passes the overlap check is taken only while the table
\* has room for it and for the requests in flight
ConcHasRoom(v, s, e) ==
    (~CreateInvalidRange(s, e) /\ ~CreateCallOverlap(v, s, e))
        => Len(Rental) + Cardinality(InFlight) < MaxRentals

ConcCheckStep ==
    \E p \in Procs, v \in VehicleIds, s \in Days, e \in Days :
        ConcHasRoom(v, s, e) /\ CreateCallCheck(p, 1, v, s, e)

ConcLookupStep == \E p \in Procs : CreateCallLookup(p)

ConcInsertStep ==
    \E p \in Procs, fault \in OtherInsertErrors \cup {NoError} :
        CreateCallInsert(p, fault)

NextConc ==
    \/ ConcCheckStep
    \/ ConcLookupStep
    \/ ConcInsertStep

SpecConc == Init /\ [][NextConc]_vars

\* SpecCatalog: requests name vehicle 1, vehicle 2 or a vehicle that is not
\* in the catalog, and vehicles are soft-deleted
AbsentVehicleIds == {3}

CatalogCreateStep ==
    \E v \in VehicleIds \cup AbsentVehicleIds, s \in Days, e \in Days :
        HasRoom(v, s, e, MaxRentals) /\ create_rental(1, v, s, e)

CatalogVehicleDeleteStep == \E v \in VehicleIds : SoftDeleteVehicle(v)

NextCatalog ==
    \/ CatalogCreateStep
    \/ DeleteStep
    \/ CatalogVehicleDeleteStep

SpecCatalog == Init /\ [][NextCatalog]_vars

\* SpecCancel: rentals of vehicle 1 are made and cancelled while time passes
CancelCreateStep ==
    \E s \in Days, e \in Days :
        HasRoom(1, s, e, MaxRentals) /\ create_rental(1, 1, s, e)

CancelUpdateStep ==
    \E rid \in RentalIds, s \in Days, e \in Days : update_rental(rid, 1, 1, s, e)

NextCancel ==
    \/ CancelCreateStep
    \/ CancelUpdateStep
    \/ DeleteStep
    \/ Tick

SpecCancel == Init /\ [][NextCancel]_vars

\* SpecLogin: users register, log in and are soft-deleted while time passes
RegisterStep ==
    \E email \in Emails, password \in Passwords :
        /\ Len(User) < MaxUsers
        /\ register(email, password)

LoginStep == \E email \in Emails, password \in Passwords : login(email, password)

UserDeleteStep == \E uid \in 1..MaxUsers : SoftDeleteUser(uid)

NextLogin ==
    \/ RegisterStep
    \/ LoginStep
    \/ UserDeleteStep
    \/ Tick

SpecLogin == Init /\ [][NextLogin]_vars

\* SpecRaceCancel: two tasks update and cancel the one rental of vehicle 1,
\* one statement at a time
RaceHasRoom(v, s, e, cap) ==
    (~CreateInvalidRange(s, e) /\ ~CreateCallOverlap(v, s, e))
        => Len(Rental) + Cardinality(InFlight) < cap

CancelRaceCreateStep ==
    \E p \in Procs, s \in Days, e \in Days :
        RaceHasRoom(1, s, e, MaxRaceRentals) /\ CreateCallCheck(p, 1, 1, s, e)

CancelRaceLookupStep == \E p \in Procs : CreateCallLookup(p)

CancelRaceInsertStep == \E p \in Procs : CreateCallInsert(p, NoError)

CancelRaceUpdateStep ==
    \E p \in Procs, rid \in 1..MaxRaceRentals, s \in Days, e \in Days :
        UpdateCallExists(p, rid, s, e)

CancelRaceUpdateCheckStep == \E p \in Procs : UpdateCallCheck(p)

CancelRaceUpdateWriteStep == \E p \in Procs : UpdateCallWrite(p)

CancelRaceUpdateViewStep == \E p \in Procs : UpdateCallView(p)

CancelRaceDeleteStep ==
    \E p \in Procs, rid \in 1..MaxRaceRentals : DeleteCallExists(p, rid)

CancelRaceDeleteWriteStep == \E p \in Procs : DeleteCallWrite(p)

NextRaceCancel ==
    \/ CancelRaceCreateStep
    \/ CancelRaceLookupStep
    \/ CancelRaceInsertStep
    \/ CancelRaceUpdateStep
    \/ CancelRaceUpdateCheckStep
    \/ CancelRaceUpdateWriteStep
    \/ CancelRaceUpdateViewStep
    \/ CancelRaceDeleteStep
    \/ CancelRaceDeleteWriteStep
    \/ Tick

SpecRaceCancel == Init /\ [][NextRaceCancel]_vars

\* SpecRaceUpdate: two tasks update rentals of vehicle 1 and the first also
\* creates them, one statement at a time, so that no two creates run at the
\* same time; the updates ask for dates in order or equal
UpdateRaceCreateStep ==
    \E s \in Days, e \in Days :
        RaceHasRoom(1, s, e, MaxRentals) /\ CreateCallCheck(1, 1, 1, s, e)

UpdateRaceLookupStep == CreateCallLookup(1)

UpdateRaceInsertStep == CreateCallInsert(1, NoError)

UpdateRaceUpdateStep ==
    \E p \in Procs, rid \in RentalIds, s \in Days, e \in Days :
        s <= e /\ UpdateCallExists(p, rid, s, e)

UpdateRaceCheckStep == \E p \in Procs : UpdateCallCheck(p)

UpdateRaceWriteStep == \E p \in Procs : UpdateCallWrite(p)

UpdateRaceViewStep == \E p \in Procs : UpdateCallView(p)

NextRaceUpdate ==
    \/ UpdateRaceCreateStep
    \/ UpdateRaceLookupStep
    \/ UpdateRaceInsertStep
    \/ UpdateRaceUpdateStep
    \/ UpdateRaceCheckStep
    \/ UpdateRaceWriteStep
    \/ UpdateRaceViewStep

SpecRaceUpdate == Init /\ [][NextRaceUpdate]_vars

\* ====================================================================
\* Properties
\* ====================================================================
\* the inclusive ranges [s1, e1] and [s2, e2] have a calendar day in common
SharesDay(s1, e1, s2, e2) == \E d \in s1..e1 : d \in s2..e2

Active(i) == Rental[i].deleted_at = NULL

\* the step just taken answered the request op
Answered(op) == req'.op = op

\* C1: no two rentals with deleted_at unset on the same vehicle have
\* inclusive ranges that share a calendar day, in any reachable state.
C1_NoActiveDoubleBooking ==
    \A i, j \in 1..Len(Rental) :
        (/\ i < j
         /\ Active(i) /\ Active(j)
         /\ Rental[i].vehicle_id = Rental[j].vehicle_id)
        => ~SharesDay(Rental[i].start_date, Rental[i].end_date,
                      Rental[j].start_date, Rental[j].end_date)

\* C2: a create request with end_date >= start_date is answered 400 exactly
\* when some stored rental of the requested vehicle shares a day with the
\* requested range; the range test gives the same answer with the two ranges
\* exchanged.
C2_CreateRejectedIffOverlap ==
    [][(Answered("create") /\ req'.start_date <= req'.end_date) =>
         /\ (resp'.status = 400) <=>
              \E i \in 1..Len(Rental) :
                  /\ Rental[i].vehicle_id = req'.vehicle_id
                  /\ SharesDay(req'.start_date, req'.end_date,
                               Rental[i].start_date, Rental[i].end_date)
         /\ \A i \in 1..Len(Rental) :
                CreateRangesOverlap(req'.start_date, req'.end_date,
                                    Rental[i].start_date, Rental[i].end_date)
                = CreateRangesOverlap(Rental[i].start_date, Rental[i].end_date,
                                      req'.start_date, req'.end_date)]_vars

\* a create was rejected for a rental of its vehicle while the other vehicle
\* has a rental on the same days, and an identical request for that other
\* vehicle's free days would not be
C2_Witness ==
    /\ req.op = "create" /\ resp.status = 400
    /\ req.start_date <= req.end_date
    /\ \E i, j \in 1..Len(Rental) :
          /\ Rental[i].vehicle_id = req.vehicle_id
          /\ Rental[j].vehicle_id # req.vehicle_id
          /\ SharesDay(req.start_date, req.end_date,
                       Rental[i].start_date, Rental[i].end_date)

\* C3: an update of an existing rental to dates start_date < end_date is
\* answered 400 whenever another non-cancelled rental of the same vehicle
\* shares a day with the new range.
C3_UpdateRejectsSharedDay ==
    [][(/\ Answered("update")
        /\ ExistingRental(req'.rental_id)
        /\ req'.start_date < req'.end_date
        /\ \E i \in 1..Len(Rental) :
              /\ i # req'.rental_id
              /\ Active(i)
              /\ Rental[i].vehicle_id = Rental[req'.rental_id].vehicle_id
              /\ SharesDay(req'.start_date, req'.end_date,
                           Rental[i].start_date, Rental[i].end_date))
       => resp'.status = 400]_vars

\* C4: an update of an existing rental with end_date < start_date is
\* answered 422, whatever other rentals the vehicle has.
C4_InvertedUpdateIsInvalidRange ==
    [][(/\ Answered("update")
        /\ ExistingRental(req'.rental_id)
        /\ req'.end_date < req'.start_date)
       => resp'.status = 422]_vars

\* C5: every stored rental has
\* total_cost = ((end_date - start_date) + 1) * price_at_rental.
C5_StoredTotalCostMatchesDates ==
    \A i \in 1..Len(Rental) :
        Rental[i].total_cost =
            ((Rental[i].end_date - Rental[i].start_date) + 1)
                * Rental[i].price_at_rental

\* C6: a rental's price_at_rental is the vehicle's price_per_day at the
\* create request that made it, and no later step changes the rental's
\* price_at_rental or vehicle_id.
C6_SnapshotAndVehicleFixed ==
    [][/\ Len(Rental') >= Len(Rental)
       /\ \A i \in 1..Len(Rental) :
              /\ Rental'[i].price_at_rental = Rental[i].price_at_rental
              /\ Rental'[i].vehicle_id = Rental[i].vehicle_id
       /\ \A i \in (Len(Rental) + 1)..Len(Rental') :
              /\ Answered("create")
              /\ Rental'[i].vehicle_id = req'.vehicle_id
              /\ Rental'[i].price_at_rental
                     = Vehicle[req'.vehicle_id].price_per_day]_vars

\* an update naming another user and another vehicle has just changed the
\* dates of a rental whose vehicle's price has changed since the booking
C6_Witness ==
    /\ req.op = "update" /\ resp.status = 200
    /\ req.vehicle_id # Rental[req.rental_id].vehicle_id
    /\ req.user_id # Rental[req.rental_id].user_id
    /\ Rental[req.rental_id].price_at_rental
           # Vehicle[Rental[req.rental_id].vehicle_id].price_per_day

C8_UpdateTotalsInclusiveFromSnapshot ==
    (req.op = "update" /\ resp.status = 200) =>
        /\ resp.total_days = (req.end_date - req.start_date) + 1
        /\ resp.total_price
               = resp.total_days * Rental[req.rental_id].price_at_rental

\* C8 as amended: a successful update returns total_days = end_date -
\* start_date of the new dates and total_price = total_days * the current
\* price_per_day of the rental's vehicle; scenario D returns 4 days, 180.00.
C8_UpdateTotalsDatediffCurrentPrice ==
    (req.op = "update" /\ resp.status = 200) =>
        /\ resp.rental_id = req.rental_id
        /\ resp.start_date = req.start_date
        /\ resp.end_date = req.end_date
        /\ resp.vehicle_id = Rental[req.rental_id].vehicle_id
        /\ resp.total_days = req.end_date - req.start_date
        /\ resp.total_price
               = resp.total_days
                   * Vehicle[Rental[req.rental_id].vehicle_id].price_per_day
        /\ (/\ Vehicle[Rental[req.rental_id].vehicle_id].price_per_day = 4500
            /\ req.start_date = 2 /\ req.end_date = 6)
           => (resp.total_days = 4 /\ resp.total_price = 18000)

\* scenario D has just been answered for the rental of scenario A
C8_Witness ==
    /\ req.op = "update" /\ resp.status = 200
    /\ req.start_date = 2 /\ req.end_date = 6
    /\ Rental[req.rental_id].price_at_rental = 4500
    /\ Rental[req.rental_id].total_cost = 22500
    /\ Vehicle[Rental[req.rental_id].vehicle_id].price_per_day = 4500
    /\ resp.total_days = 4 /\ resp.total_price = 18000

\* C9: create, update and the listing endpoints report total_days as the
\* day difference end_date - start_date, so a successful create returns the
\* total_days the listings report for the rental it made.
C9_TotalDaysAgreeAcrossEndpoints ==
    /\ \A row \in list_rentals :
           row.total_days = row.end_date - row.start_date
    /\ \A u \in UserIds : \A row \in get_user_rentals(u) :
           row.total_days = row.end_date - row.start_date
    /\ (req.op = "update" /\ resp.status = 200) =>
           resp.total_days = resp.end_date - resp.start_date
    /\ (req.op = "create" /\ resp.status = 201) =>
           /\ resp.total_days = resp.end_date - resp.start_date
           /\ \E row \in list_rentals :
                  /\ row.rental_id = resp.rental_id
                  /\ row.total_days = resp.total_days
           /\ \E row \in get_user_rentals(resp.user_id) :
                  /\ row.rental_id = resp.rental_id
                  /\ row.total_days = resp.total_days

\* C10: a create request with end_date >= start_date whose range shares a
\* day with a cancelled rental of the requested vehicle is answered 400.
C10_CancelledRentalStillBlocksCreate ==
    [][(/\ Answered("create")
        /\ req'.start_date <= req'.end_date
        /\ \E i \in 1..Len(Rental) :
              /\ ~Active(i)
              /\ Rental[i].vehicle_id = req'.vehicle_id
              /\ SharesDay(req'.start_date, req'.end_date,
                           Rental[i].start_date, Rental[i].end_date))
       => resp'.status = 400]_vars

\* a create was rejected although every rental of the vehicle that shares a
\* day with the request is cancelled, one of them with other dates
C10_Witness ==
    /\ req.op = "create" /\ resp.status = 400
    /\ req.start_date <= req.end_date
    /\ \A i \in 1..Len(Rental) :
          (/\ Rental[i].vehicle_id = req.vehicle_id
           /\ SharesDay(req.start_date, req.end_date,
                        Rental[i].start_date, Rental[i].end_date))
          => ~Active(i)
    /\ \A i \in 1..Len(Rental) :
          Rental[i].vehicle_id = req.vehicle_id =>
              <<Rental[i].start_date, Rental[i].end_date>>
                  # <<req.start_date, req.end_date>>

\* the inclusive range [rs, re] has a day between the two requested dates
TouchesRequest(s, e, rs, re) ==
    \E d \in rs..re :
        /\ (IF s <= e THEN s ELSE e) <= d
        /\ d <= (IF s <= e THEN e ELSE s)

\* C11: an update is answered 400 only when some other rental of the same
\* vehicle, not cancelled, has a day between the requested dates: the
\* rental's own range and cancelled rentals never cause the rejection.
C11_UpdateRejectedOnlyByOtherActive ==
    [][(Answered("update") /\ resp'.status = 400) =>
         /\ req'.rental_id \in 1..Len(Rental)
         /\ \E i \in 1..Len(Rental) :
               /\ i # req'.rental_id
               /\ Active(i)
               /\ Rental[i].vehicle_id = Rental[req'.rental_id].vehicle_id
               /\ TouchesRequest(req'.start_date, req'.end_date,
                                 Rental[i].start_date, Rental[i].end_date)]_vars

\* an update was accepted whose new range has an inner day in common with a
\* cancelled rental of the same vehicle
C11_Witness ==
    /\ req.op = "update" /\ resp.status = 200
    /\ \E i \in 1..Len(Rental) :
          /\ i # req.rental_id
          /\ ~Active(i)
          /\ Rental[i].vehicle_id = Rental[req.rental_id].vehicle_id
          /\ Rental[i].start_date < req.end_date
          /\ req.start_date < Rental[i].end_date

C13_CreateRejectsStartNotBeforeEnd ==
    [][(Answered("create") /\ req'.start_date >= req'.end_date)
       => resp'.status = 422]_vars

\* the vehicle of the request is not in the catalog or is soft-deleted
VehicleMissing(v) == v \notin DOMAIN Vehicle \/ Vehicle[v].deleted_at # NULL

\* C14: a create decides in the order date range, overlap, vehicle: an
\* inverted range gives 422 whatever else holds; a valid range that shares
\* a day with a rental of the vehicle gives 400 even if the vehicle is
\* missing; 404 is given exactly when the range is valid, nothing overlaps
\* and the vehicle is missing.
C14_CreateDecisionOrder ==
    [][Answered("create") =>
         LET invalid == req'.end_date < req'.start_date
             overlap == \E i \in 1..Len(Rental) :
                            /\ Rental[i].vehicle_id = req'.vehicle_id
                            /\ SharesDay(req'.start_date, req'.end_date,
                                         Rental[i].start_date,
                                         Rental[i].end_date)
         IN /\ invalid => resp'.status = 422
            /\ (~invalid /\ overlap) => resp'.status = 400
            /\ (resp'.status = 404)
                   <=> (~invalid /\ ~overlap /\ VehicleMissing(req'.vehicle_id))
            /\ resp'.status # 201 => Rental' = Rental]_vars

\* a create for a soft-deleted vehicle was answered 400 because a rental of
\* that vehicle overlaps
C14_Witness ==
    /\ req.op = "create" /\ resp.status = 400
    /\ req.vehicle_id \in DOMAIN Vehicle
    /\ Vehicle[req.vehicle_id].deleted_at # NULL
    /\ \E i \in 1..Len(Rental) : Rental[i].vehicle_id = req.vehicle_id

\* C15: a delete of a rental that is not cancelled is answered 204 and sets
\* that rental's deleted_at and nothing else; a delete of a cancelled rental
\* or of an id that was never given is answered 404 and changes no table,
\* so the first deleted_at stays.
C15_DeleteOnceThenNotFound ==
    [][Answered("delete") =>
         /\ Vehicle' = Vehicle
         /\ IF /\ req'.rental_id \in 1..Len(Rental)
               /\ Rental[req'.rental_id].deleted_at = NULL
            THEN /\ resp'.status = 204
                 /\ Len(Rental') = Len(Rental)
                 /\ Rental'[req'.rental_id]
                      = [Rental[req'.rental_id] EXCEPT !.deleted_at = now]
                 /\ now # NULL
                 /\ \A j \in 1..Len(Rental) :
                        j # req'.rental_id => Rental'[j] = Rental[j]
            ELSE /\ resp'.status = 404
                 /\ Rental' = Rental]_vars

\* a second delete of a rental, later than the first, was answered 404
C15_Witness ==
    /\ req.op = "delete" /\ resp.status = 404
    /\ req.rental_id \in 1..Len(Rental)
    /\ Rental[req.rental_id].deleted_at # NULL
    /\ Rental[req.rental_id].deleted_at < now

\* C16: no read endpoint returns a rental whose deleted_at is set.
C16_CancelledNeverRead ==
    /\ \A row \in list_rentals : Rental[row.rental_id].deleted_at = NULL
    /\ \A u \in UserIds : \A row \in get_user_rentals(u) :
           Rental[row.rental_id].deleted_at = NULL
    /\ \A rid \in RentalIds : \A ik \in RentalByIdRows(rid) :
           rentals[ik[1]].deleted_at = NULL
    /\ \A i \in 1..Len(Rental) :
           ~Active(i) =>
               /\ \A row \in list_rentals : row.rental_id # i
               /\ \A u \in UserIds : \A row \in get_user_rentals(u) :
                      row.rental_id # i

\* a rental has just been cancelled while another one is still listed
C16_Witness ==
    /\ req.op = "delete" /\ resp.status = 204
    /\ ~Active(req.rental_id)
    /\ \E row \in list_rentals : row.rental_id # req.rental_id
    /\ \E row \in get_user_rentals(1) : row.rental_id # req.rental_id

\* C17: an update of a rental id that was never given or is cancelled is
\* answered 404, whatever the new dates, and changes no table.
C17_UpdateOfMissingRentalNotFound ==
    [][(/\ Answered("update")
        /\ \/ req'.rental_id \notin 1..Len(Rental)
           \/ Rental[req'.rental_id].deleted_at # NULL)
       => /\ resp'.status = 404
          /\ Rental' = Rental
          /\ Vehicle' = Vehicle]_vars

\* an update of a cancelled rental, with dates in the wrong order that
\* another rental of the vehicle has, was answered 404
C17_Witness ==
    /\ req.op = "update" /\ resp.status = 404
    /\ req.rental_id \in 1..Len(Rental)
    /\ Rental[req.rental_id].deleted_at # NULL
    /\ req.end_date < req.start_date
    /\ \E i \in 1..Len(Rental) :
          /\ i # req.rental_id
          /\ Active(i)
          /\ Rental[i].vehicle_id = Rental[req.rental_id].vehicle_id
          /\ Rental[i].start_date <= req.end_date
          /\ req.start_date <= Rental[i].end_date

\* the task's call is between its overlap check and the end of its INSERT
PassedCheck(c) == c.pc \in {"lookup", "insert"}

\* C18: the overlap check of a create request looks at the stored rentals
\* only: it passes exactly when the range is valid and no stored rental of
\* the vehicle shares a day with it, whatever another request that has
\* passed its own check and not yet inserted asks for; so two requests for
\* overlapping ranges of one vehicle are both past the check before either
\* inserts.
C18_CheckSeesStoredRentalsOnly ==
    [][\A p \in Procs :
          (calls[p].pc \in {"idle", "done"} /\ calls'[p] # calls[p]) =>
              (PassedCheck(calls'[p])
                 <=> /\ calls'[p].start_date <= calls'[p].end_date
                     /\ \A i \in 1..Len(Rental) :
                           Rental[i].vehicle_id = calls'[p].vehicle_id =>
                               ~SharesDay(calls'[p].start_date,
                                          calls'[p].end_date,
                                          Rental[i].start_date,
                                          Rental[i].end_date))]_vars

\* two requests for overlapping ranges of one vehicle have both passed the
\* overlap check and neither has inserted
C18_Witness ==
    \E p \in Procs, q \in Procs :
        /\ p # q
        /\ PassedCheck(calls[p]) /\ PassedCheck(calls[q])
        /\ calls[p].vehicle_id = calls[q].vehicle_id
        /\ SharesDay(calls[p].start_date, calls[p].end_date,
                     calls[q].start_date, calls[q].end_date)
        /\ \A i \in 1..Len(Rental) :
               Rental[i].vehicle_id # calls[p].vehicle_id

\* C19: of two concurrent create requests for ranges of one vehicle that
\* share a day, identical or not, at most one is committed, and no two
\* rentals that are not cancelled share a day of one vehicle.
C19_ConstraintStopsSecondInsert ==
    /\ \A p \in Procs, q \in Procs :
          (/\ p # q
           /\ calls[p].pc = "done" /\ calls[p].status = 201
           /\ calls[q].pc = "done" /\ calls[q].status = 201
           /\ calls[p].vehicle_id = calls[q].vehicle_id)
          => ~SharesDay(calls[p].start_date, calls[p].end_date,
                        calls[q].start_date, calls[q].end_date)
    /\ \A i \in 1..Len(Rental), j \in 1..Len(Rental) :
          (i # j /\ Active(i) /\ Active(j)
             /\ Rental[i].vehicle_id = Rental[j].vehicle_id)
          => ~SharesDay(Rental[i].start_date, Rental[i].end_date,
                        Rental[j].start_date, Rental[j].end_date)

\* C20: a create whose INSERT failed with error 1062 on
\* uq_vehicle_date_overlap ends with status 400 and the detail of the
\* overlap check; a create whose INSERT failed in any other way ends with
\* status 500 and another detail; a failed INSERT stores nothing.
C20_InsertFailureOutcome ==
    \A p \in Procs :
        (calls[p].pc = "done" /\ calls[p].err # NoError) =>
            /\ calls[p].rental_id = 0
            /\ IF calls[p].err = UqViolationError
               THEN calls[p].status = 400
                    /\ calls[p].detail = DetailUnavailable
               ELSE calls[p].status = 500
                    /\ calls[p].detail # DetailUnavailable

\* one request ended on the uniqueness violation and the other on another
\* error 1062
C20_Witness ==
    \E p \in Procs, q \in Procs :
        /\ calls[p].pc = "done" /\ calls[p].err = UqViolationError
        /\ calls[p].detail = DetailUnavailable
        /\ calls[q].pc = "done" /\ "1062" \in calls[q].err
        /\ calls[q].status = 500

\* the statuses of InvalidRange, VehicleUnavailable, VehicleNotFound and
\* RentalNotFound
TerminalErrors == {400, 404, 422}

\* C21: a create, update or delete answered 422, 400 or 404 leaves the
\* stored rentals unchanged; a create inserts at most one row and is
\* answered 201 exactly when it has inserted the one row of its request.
C21_ErrorsWriteNothingCreateInsertsOnce ==
    [][/\ (/\ \/ Answered("create") \/ Answered("update") \/ Answered("delete")
           /\ resp'.status \in TerminalErrors)
          => Rental' = Rental
       /\ Answered("create") =>
             /\ Len(Rental') \in {Len(Rental), Len(Rental) + 1}
             /\ \A i \in 1..Len(Rental) : Rental'[i] = Rental[i]
             /\ (resp'.status = 201) <=> (Len(Rental') = Len(Rental) + 1)
             /\ (resp'.status = 201) =>
                   /\ resp'.rental_id = Len(Rental')
                   /\ Rental'[Len(Rental')].user_id = req'.user_id
                   /\ Rental'[Len(Rental')].vehicle_id = req'.vehicle_id
                   /\ Rental'[Len(Rental')].start_date = req'.start_date
                   /\ Rental'[Len(Rental')].end_date = req'.end_date
                   /\ Rental'[Len(Rental')].deleted_at = NULL]_vars

\* an update with its dates in the wrong order, for a rental that exists and
\* that no other rental is in the way of, was answered 422
C21_Witness ==
    /\ req.op = "update" /\ resp.status = 422
    /\ req.rental_id \in 1..Len(Rental)
    /\ Active(req.rental_id)
    /\ Rental[req.rental_id].start_date < Rental[req.rental_id].end_date
    /\ req.end_date < req.start_date

\* C22: a create for a vehicle whose deleted_at is set is answered 404
\* (422 if its dates are in the wrong order) and stores nothing, and an
\* update of a rental of such a vehicle is never accepted and writes no
\* dates.
C22_DeletedVehicleTakesNoBooking ==
    [][/\ (/\ Answered("create")
           /\ req'.vehicle_id \in DOMAIN Vehicle
           /\ Vehicle[req'.vehicle_id].deleted_at # NULL)
          => /\ resp'.status \in {404, 422}
             /\ (req'.start_date <= req'.end_date => resp'.status = 404)
             /\ Rental' = Rental
       /\ (/\ Answered("update")
           /\ req'.rental_id \in 1..Len(Rental)
           /\ Vehicle[Rental[req'.rental_id].vehicle_id].deleted_at # NULL)
          => /\ resp'.status # 200
             /\ Rental' = Rental]_vars

\* C24: once a rental's deleted_at is set, no create, update or delete that
\* runs alone changes that rental: deleted_at, start_date, end_date,
\* price_at_rental and total_cost stay.
C24_CancelledRentalFrozen ==
    [][\A i \in 1..Len(Rental) :
          Rental[i].deleted_at # NULL =>
              /\ i \in 1..Len(Rental')
              /\ Rental'[i] = Rental[i]]_vars

\* a cancelled rental was the target of an accepted-looking update (dates in
\* order, nothing in the way) and of a later delete, at a later time than
\* its cancellation
C24_Witness ==
    /\ req.op = "update" /\ resp.status = 404
    /\ req.rental_id \in 1..Len(Rental)
    /\ Rental[req.rental_id].deleted_at # NULL
    /\ Rental[req.rental_id].deleted_at < now
    /\ req.start_date < req.end_date
    /\ \A i \in 1..Len(Rental) :
           i # req.rental_id =>
               ~SharesDay(req.start_date, req.end_date,
                          Rental[i].start_date, Rental[i].end_date)

\* C28: every rental that is not cancelled is found by get_rental_by_id
\* under its rental_id, with the user, vehicle and dates list_rentals
\* reports for it.
C28_RentalByIdFindsListedRental ==
    \A row \in list_rentals :
        \E byid \in get_rental_by_id(row.rental_id) :
            /\ byid.rental_id = row.rental_id
            /\ byid.user_id = row.user_id
            /\ byid.vehicle_id = row.vehicle_id
            /\ byid.start_date = row.start_date
            /\ byid.end_date = row.end_date

\* C29: for every rental that is not cancelled, list_rentals and
\* get_user_rentals report the same total_price, the stored total_cost.
C29_ListAndHistoryPriceAgree ==
    \A i \in 1..Len(Rental) :
        Active(i) =>
            /\ \E row \in list_rentals :
                   row.rental_id = i /\ row.total_price = Rental[i].total_cost
            /\ \E row \in get_user_rentals(Rental[i].user_id) :
                   row.rental_id = i /\ row.total_price = Rental[i].total_cost

\* the users that are not deleted and have the email and the password
Credentialed(email, password) ==
    { i \in 1..Len(User) :
        /\ User[i].email = email
        /\ User[i].password_hash = SHA2(password)
        /\ User[i].deleted_at = NULL }

\* C23: a login is answered 200 exactly when a user that is not deleted has
\* the email and the hash of the password; a login answered 401 changes no
\* user, and a login answered 200 names a matching user and sets that
\* user's last_login_at and nothing else.
C23_LoginOnlyForLiveMatchingUser ==
    [][auth'.op = "login" =>
         /\ auth'.status \in {200, 401}
         /\ (auth'.status = 200)
                <=> (Credentialed(auth'.email, auth'.password) # {})
         /\ auth'.status = 401 => User' = User
         /\ auth'.status = 200 =>
               /\ auth'.user_id \in Credentialed(auth'.email, auth'.password)
               /\ User' = [User EXCEPT ![auth'.user_id].last_login_at = now]]_vars

\* a login with the right email and password of a soft-deleted user was
\* answered 401 while another user has logged in before
C23_Witness ==
    /\ auth.op = "login" /\ auth.status = 401
    /\ \E i \in 1..Len(User) :
          /\ User[i].email = auth.email
          /\ User[i].password_hash = SHA2(auth.password)
          /\ User[i].deleted_at # NULL
    /\ \E j \in 1..Len(User) :
          /\ User[j].last_login_at # NULL
          /\ User[j].last_login_at < now

\* C25: whatever the interleaving of an update with a delete of the same
\* rental, no step writes new dates to a rental whose deleted_at is set at
\* the moment of the write.
C25_NoDateWriteToCancelledRental ==
    [][\A i \in 1..Len(Rental) :
          Rental[i].deleted_at # NULL =>
              /\ Rental'[i].start_date = Rental[i].start_date
              /\ Rental'[i].end_date = Rental[i].end_date]_vars

\* C26: of the deletes of one rental that run at the same time at most one
\* is answered 204, and the UPDATE of a delete writes deleted_at only to a
\* rental whose deleted_at is not set.
C26_OneDeleteSucceeds ==
    [][/\ \A p \in Procs :
             (calls[p].pc = "cancel" /\ calls'[p].pc = "done") =>
                 Rental[calls[p].rental_id].deleted_at = NULL
       /\ \A p \in Procs, q \in Procs :
             (/\ p # q
              /\ calls'[p].op = "delete" /\ calls'[q].op = "delete"
              /\ calls'[p].pc = "done" /\ calls'[q].pc = "done"
              /\ calls'[p].rental_id = calls'[q].rental_id)
             => ~(calls'[p].status = 204 /\ calls'[q].status = 204)]_vars

\* no request is between its first query and its answer
AllComplete == \A p \in Procs : calls[p].pc \in {"idle", "done"}

\* the ranges have more than an end day in common: the overlap that
\* update_rental's own query tests (a shared end day alone is C3's case)
Intersecting(s1, e1, s2, e2) == s1 < e2 /\ s2 < e1

\* C27: whatever the interleaving of an update with another update or with
\* a create of the same vehicle, once the requests are complete no two
\* rentals of the vehicle that are not cancelled have intersecting ranges.
C27_UpdateRaceKeepsRentalsDisjoint ==
    AllComplete =>
        \A i \in 1..Len(Rental), j \in 1..Len(Rental) :
            (/\ i # j
             /\ Active(i) /\ Active(j)
             /\ Rental[i].vehicle_id = Rental[j].vehicle_id)
            => ~Intersecting(Rental[i].start_date, Rental[i].end_date,
                             Rental[j].start_date, Rental[j].end_date)

====
